---- MODULE Spec2Model ----
(***************************************************************************)
(* Model of pilotmila.py: the LawReviewClassifier decision pipeline        *)
(* (Steps A-E of classify) on one classifier instance.                     *)
(*                                                                         *)
(* Further specifications cover repeated calls on one classifier (SpecRun), *)
(* PDF segmentation and metrics (SpecExtract) and the scrape loop          *)
(* (SpecScrape).                                                           *)
(*                                                                         *)
(* Strings the code searches (main_text, authors) are sequences of         *)
(* one-character strings, so that substring search, slicing and the        *)
(* "Class of (\d{4})" scan are computed as the code computes them.         *)
(* Dictionaries are records; dict.get(key, default) is Get.                *)
(***************************************************************************)
EXTENDS Integers, Sequences, FiniteSets, TLC

VARIABLES
    pc,                 \* position inside classify: idle, A, B, C, D, E, log, done
    paper_data,         \* the paper_data argument of the running call
    publication_year,   \* the publication_year argument of the running call
    result,             \* the result dict of the running call
    classification_log, \* self.classification_log
    after,              \* label of result after each step that was called, in call order
    returned,           \* the calls of classify that returned before the running one
    ex,                 \* find_footnote_separator / extract_pdf_text_and_metadata in progress
    run                 \* scrape_law_journal in progress

vars == <<pc, paper_data, publication_year, result, classification_log, after,
          returned, ex, run>>

----------------------------------------------------------------------------
(* Generic helpers for Python dicts, strings and lists *)

\* d.get(k, default)
Get(d, k, default) == IF k \in DOMAIN d THEN d[k] ELSE default

\* d[k] = v, adding the key when it is missing
Put(d, k, v) == (k :> v) @@ d

Min(a, b) == IF a <= b THEN a ELSE b

Abs(n) == IF n < 0 THEN -n ELSE n

\* text[:n]
Slice(text, n) == SubSeq(text, 1, Min(n, Len(text)))

\* keyword in text (substring search)
Contains(text, keyword) ==
    \E i \in 1..(Len(text) - Len(keyword) + 1) :
        SubSeq(text, i, i + Len(keyword) - 1) = keyword

\* set(list)
ToSet(list) == {list[i] : i \in 1..Len(list)}

\* " ".join(parts)
RECURSIVE Join(_)
Join(parts) ==
    IF parts = <<>> THEN <<>>
    ELSE IF Len(parts) = 1 THEN parts[1]
    ELSE parts[1] \o <<" ">> \o Join(Tail(parts))

\* n filler characters that belong to no keyword
Pad(n) == [i \in 1..n |-> "x"]

----------------------------------------------------------------------------
(* Program constants *)

\* Step A: pages <= 3
ShortPageLimit == 3

\* Step B: text[:3000]
KeywordPrefixLen == 3000

\* Step C: abs(class_year - publication_year) <= 3
ClassYearTolerance == 3

\* Step C: word_count <= 20000
StudentWordLimit == 20000

\* LawReviewClassifier.LABELS
LABELS ==
    {"Unlabeled", "Article", "Essay", "Article_OR_Essay",
     "Note", "Comment", "Note_OR_Comment", "Miscellaneous", "ERROR"}

kwARTICLE == <<"A","R","T","I","C","L","E">>
kwARTICLES == <<"A","R","T","I","C","L","E","S">>
kwESSAY == <<"E","S","S","A","Y">>
kwESSAYS == <<"E","S","S","A","Y","S">>
kwNOTE == <<"N","O","T","E">>
kwNOTES == <<"N","O","T","E","S">>
kwCOMMENT == <<"C","O","M","M","E","N","T">>
kwCOMMENTS == <<"C","O","M","M","E","N","T","S">>
kwSTUDENT_CONTRIBUTION ==
    <<"S","T","U","D","E","N","T"," ","C","O","N","T","R","I","B","U","T","I","O","N">>
kwSTUDENT_CONTRIBUTIONS ==
    <<"S","T","U","D","E","N","T"," ","C","O","N","T","R","I","B","U","T","I","O","N","S">>

\* LawReviewClassifier.SECTION_KEYWORDS
SECTION_KEYWORDS ==
    [ARTICLE |-> <<kwARTICLE, kwARTICLES>>,
     ESSAY |-> <<kwESSAY, kwESSAYS>>,
     NOTE |-> <<kwNOTE, kwNOTES>>,
     COMMENT |-> <<kwCOMMENT, kwCOMMENTS>>,
     STUDENT_CONTRIBUTION |-> <<kwSTUDENT_CONTRIBUTION, kwSTUDENT_CONTRIBUTIONS>>]

\* iteration order of the SECTION_KEYWORDS dict (insertion order)
CategoryOrder == <<"ARTICLE", "ESSAY", "NOTE", "COMMENT", "STUDENT_CONTRIBUTION">>

\* 'J.D. Candidate'
strJDCandidate == <<"J",".","D","."," ","C","a","n","d","i","d","a","t","e">>

\* the literal part of the pattern r'Class of (\d{4})'
strClassOf == <<"C","l","a","s","s"," ","o","f"," ">>

DigitChars == <<"0","1","2","3","4","5","6","7","8","9">>

IsDigit(c) == \E d \in 1..10 : DigitChars[d] = c

DigitValue(c) == (CHOOSE d \in 1..10 : DigitChars[d] = c) - 1

\* int(digits)
RECURSIVE ToInt(_)
ToInt(digits) ==
    IF digits = <<>> THEN 0
    ELSE 10 * ToInt(SubSeq(digits, 1, Len(digits) - 1)) + DigitValue(digits[Len(digits)])

\* the four decimal digits of a year, as characters
YearDigits(y) ==
    <<DigitChars[((y \div 1000) % 10) + 1], DigitChars[((y \div 100) % 10) + 1],
      DigitChars[((y \div 10) % 10) + 1], DigitChars[(y % 10) + 1]>>

----------------------------------------------------------------------------
(* Step A *)

\* _step_a_preprocessing(paper_data, result)
_step_a_preprocessing(paper, res) ==
    LET pages == Get(paper, "pages", 0) IN
    IF pages <= ShortPageLimit
    THEN [res EXCEPT
            !.label = "Misc",
            !.steps = Append(@, [step |-> "A", name |-> "Pre-Processing Filter",
                                 rule |-> <<pages, "<= 3">>,
                                 action |-> "Label Misc"])]
    ELSE [res EXCEPT
            !.steps = Append(@, [step |-> "A", name |-> "Pre-Processing Filter",
                                 rule |-> <<pages, "> 3">>,
                                 action |-> "Continue to next step"])]

----------------------------------------------------------------------------
(* Step B *)

\* found_keywords: for each category, the keywords that occur in text[:3000].
\* (first_3_pages, the first 1000 words joined, is computed by the code and
\* never read, so it has no counterpart here.)
FoundKeywords(text) ==
    LET prefix == Slice(text, KeywordPrefixLen) IN
    [category \in DOMAIN SECTION_KEYWORDS |->
        LET Occurs(keyword) == Contains(prefix, keyword)
        IN  SelectSeq(SECTION_KEYWORDS[category], Occurs)]

\* categories_found: the categories with a keyword found, in dict order
CategoriesFound(found_keywords) ==
    LET NonEmpty(category) == found_keywords[category] # <<>>
    IN  SelectSeq(CategoryOrder, NonEmpty)

\* _apply_decision_logic with the NOTE and COMMENT branches exchanged
_apply_decision_logic_swapped(categories) ==
    IF categories = <<>> THEN "Continue"
    ELSE IF Len(categories) = 1 /\ categories[1] = "ARTICLE" THEN "Article"
    ELSE IF Len(categories) = 1 /\ categories[1] = "ESSAY" THEN "Essay"
    ELSE IF Len(categories) = 1 /\ categories[1] = "NOTE" THEN "Comment"
    ELSE IF Len(categories) = 1 /\ categories[1] = "COMMENT" THEN "Note"
    ELSE IF Len(categories) = 1 /\ categories[1] = "STUDENT_CONTRIBUTION"
         THEN "Note_OR_Comment"
    ELSE IF Len(categories) = 2
         THEN IF ToSet(categories) = {"ARTICLE", "ESSAY"} THEN "Article_OR_Essay"
              ELSE IF ToSet(categories) = {"NOTE", "COMMENT"} THEN "Note_OR_Comment"
              ELSE "ERROR"
    ELSE "ERROR"

\* _apply_decision_logic comparing the pair as a list instead of as a set
_apply_decision_logic_ordered(categories) ==
    IF categories = <<>> THEN "Continue"
    ELSE IF Len(categories) = 1 /\ categories[1] = "ARTICLE" THEN "Article"
    ELSE IF Len(categories) = 1 /\ categories[1] = "ESSAY" THEN "Essay"
    ELSE IF Len(categories) = 1 /\ categories[1] = "NOTE" THEN "Note"
    ELSE IF Len(categories) = 1 /\ categories[1] = "COMMENT" THEN "Comment"
    ELSE IF Len(categories) = 1 /\ categories[1] = "STUDENT_CONTRIBUTION"
         THEN "Note_OR_Comment"
    ELSE IF Len(categories) = 2
         THEN IF categories = <<"ARTICLE", "ESSAY">> THEN "Article_OR_Essay"
              ELSE IF categories = <<"NOTE", "COMMENT">> THEN "Note_OR_Comment"
              ELSE "ERROR"
    ELSE "ERROR"

\* _apply_decision_logic(categories)
_apply_decision_logic(categories) ==
    IF categories = <<>> THEN "Continue"
    ELSE IF Len(categories) = 1 /\ categories[1] = "ARTICLE" THEN "Article"
    ELSE IF Len(categories) = 1 /\ categories[1] = "ESSAY" THEN "Essay"
    ELSE IF Len(categories) = 1 /\ categories[1] = "NOTE" THEN "Note"
    ELSE IF Len(categories) = 1 /\ categories[1] = "COMMENT" THEN "Comment"
    ELSE IF Len(categories) = 1 /\ categories[1] = "STUDENT_CONTRIBUTION"
         THEN "Note_OR_Comment"
    ELSE IF Len(categories) = 2
         THEN IF ToSet(categories) = {"ARTICLE", "ESSAY"} THEN "Article_OR_Essay"
              ELSE IF ToSet(categories) = {"NOTE", "COMMENT"} THEN "Note_OR_Comment"
              ELSE "ERROR"
    ELSE "ERROR"

\* _step_b_keyword_lookup(paper_data, result)
_step_b_keyword_lookup(paper, res) ==
    LET text == Get(paper, "main_text", <<>>)
        found_keywords == FoundKeywords(text)
        categories_found == CategoriesFound(found_keywords)
        decision_logic_result == _apply_decision_logic(categories_found)
    IN  IF decision_logic_result # "Continue"
        THEN [res EXCEPT
                !.label = decision_logic_result,
                !.steps = Append(@, [step |-> "B",
                                     name |-> "Section Header Keyword Lookup",
                                     keywords_found |-> found_keywords,
                                     categories |-> categories_found,
                                     action |-> <<"Label", decision_logic_result>>])]
        ELSE [res EXCEPT
                !.steps = Append(@, [step |-> "B",
                                     name |-> "Section Header Keyword Lookup",
                                     keywords_found |-> found_keywords,
                                     categories |-> categories_found,
                                     action |-> <<"No definitive keywords. Continue to Step C">>])]

----------------------------------------------------------------------------
(* Step C *)

\* 'J.D. Candidate' in authors
JdCandidateMatch(authors) == Contains(authors, strJDCandidate)

\* re.findall(r'Class of (\d{4})', authors): the captured digit groups, left to
\* right.  Two matches cannot overlap (no character of "lass of dddd" is "C"),
\* so every position where the pattern matches is a match findall reports.
ClassMatches(authors) ==
    LET n == Len(strClassOf)
        MatchAt(i) ==
            /\ i + n + 3 <= Len(authors)
            /\ SubSeq(authors, i, i + n - 1) = strClassOf
            /\ \A j \in (i + n)..(i + n + 3) : IsDigit(authors[j])
        Positions == SelectSeq([i \in 1..Len(authors) |-> i], MatchAt)
    IN  [k \in 1..Len(Positions) |->
            SubSeq(authors, Positions[k] + n, Positions[k] + n + 3)]

\* ClassYearMatch with a strict comparison
ClassYearMatch_strict(authors, year) ==
    LET class_matches == ClassMatches(authors) IN
    \E k \in 1..Len(class_matches) :
        Abs(ToInt(class_matches[k]) - year) < ClassYearTolerance

\* the loop over class_matches: True at the first year within the tolerance
ClassYearMatch(authors, year) ==
    LET class_matches == ClassMatches(authors) IN
    \E k \in 1..Len(class_matches) :
        Abs(ToInt(class_matches[k]) - year) <= ClassYearTolerance

\* criterion_2_met = word_count <= 20000
Criterion2Met(word_count) == word_count <= StudentWordLimit

\* _step_c_student_check(paper_data, result, publication_year)
_step_c_student_check(paper, res, year) ==
    IF res.label # "Unlabeled" THEN res
    ELSE
    LET authors == Get(paper, "authors", <<>>)
        word_count == Get(paper, "words", 0)
        jd_candidate_match == JdCandidateMatch(authors)
        class_year_match == IF jd_candidate_match THEN FALSE
                            ELSE ClassYearMatch(authors, year)
        criterion_1_met == jd_candidate_match \/ class_year_match
        criterion_2_met == Criterion2Met(word_count)
        both_criteria_met == criterion_1_met /\ criterion_2_met
        step_info == [step |-> "C",
                      name |-> "Student Authorship Check",
                      criterion_1_jd_candidate |-> jd_candidate_match,
                      criterion_1_class_year |-> class_year_match,
                      criterion_1_met |-> criterion_1_met,
                      criterion_2_word_count |-> word_count,
                      criterion_2_met |-> criterion_2_met,
                      both_met |-> both_criteria_met,
                      action |-> IF both_criteria_met
                                 THEN "both criteria met. label Note_OR_Comment"
                                 ELSE "criteria not fully met. continue to final step"]
    IN  [res EXCEPT
            !.label = IF both_criteria_met THEN "Note_OR_Comment" ELSE @,
            !.steps = Append(@, step_info)]

----------------------------------------------------------------------------
(* Step D *)

\* the keys of validation_table
ValidationLabels ==
    {"Article", "Essay", "Article_OR_Essay", "Note", "Comment",
     "Note_OR_Comment", "Unlabeled", "Miscellaneous"}

\* validation_table[label][0](wc) for the two-outcome rows
ValidationCondition(label, wc) ==
    CASE label = "Article" -> wc > 15000
      [] label = "Essay" -> wc < 20000
      [] label = "Article_OR_Essay" -> wc > 15000
      [] label = "Note" -> wc < 18000
      [] label = "Comment" -> wc < 10000
      [] label = "Unlabeled" -> wc > 18000
      [] label = "Miscellaneous" -> TRUE

\* validation_table[label][1]
LabelIfTrue(label) ==
    CASE label = "Article" -> "Article (confirmed)"
      [] label = "Essay" -> "Essay (confirmed)"
      [] label = "Article_OR_Essay" -> "Article"
      [] label = "Note" -> "Note (confirmed)"
      [] label = "Comment" -> "Comment (confirmed)"
      [] label = "Unlabeled" -> "Article"
      [] label = "Miscellaneous" -> "Miscellaneous"

\* validation_table[label][2]
\* the table with Article_OR_Essay left as it is when the test fails
LabelIfFalse_kept(label) ==
    CASE label = "Article" -> "ERROR"
      [] label = "Essay" -> "ERROR"
      [] label = "Article_OR_Essay" -> "Article_OR_Essay"
      [] label = "Note" -> "ERROR"
      [] label = "Comment" -> "ERROR"
      [] label = "Unlabeled" -> "ERROR"
      [] label = "Miscellaneous" -> "Miscellaneous"

LabelIfFalse(label) ==
    CASE label = "Article" -> "ERROR"
      [] label = "Essay" -> "ERROR"
      [] label = "Article_OR_Essay" -> "Essay"
      [] label = "Note" -> "ERROR"
      [] label = "Comment" -> "ERROR"
      [] label = "Unlabeled" -> "ERROR"
      [] label = "Miscellaneous" -> "Miscellaneous"

\* validation_table['Note_OR_Comment'][0](wc)
\* the resolver that takes a count of 0 for a missing one
ResolveNoteOrComment_positive(wc) ==
    IF 0 < wc /\ wc < 10000 THEN "Comment"
    ELSE IF 10000 <= wc /\ wc <= 20000 THEN "Note"
    ELSE "ERROR"

ResolveNoteOrComment(wc) ==
    IF wc < 10000 THEN "Comment"
    ELSE IF 10000 <= wc /\ wc <= 20000 THEN "Note"
    ELSE "ERROR"

\* word_count = result.get('word_count', 0)
StepDWordCount(res) == Get(res, "word_count", 0)

\* _step_d_validation appending no record for a label outside the table
_step_d_validation_silent(res) ==
    LET word_count == StepDWordCount(res)
        current_label == res.label
    IN  IF current_label \in ValidationLabels
        THEN LET final_label ==
                    IF current_label = "Note_OR_Comment"
                    THEN ResolveNoteOrComment(word_count)
                    ELSE IF ValidationCondition(current_label, word_count)
                         THEN LabelIfTrue(current_label)
                         ELSE LabelIfFalse(current_label)
             IN  [res EXCEPT
                     !.label = final_label,
                     !.steps = Append(@, [step |-> "D",
                                          name |-> "Validation (Length-Based Refinement)",
                                          current_label |-> current_label,
                                          word_count |-> word_count,
                                          condition_met |->
                                              IF current_label # "Note_OR_Comment"
                                              THEN <<ValidationCondition(current_label, word_count)>>
                                              ELSE <<>>,
                                          final_label |-> final_label])]
        ELSE res

\* _step_d_validation(result)
_step_d_validation(res) ==
    LET word_count == StepDWordCount(res)
        current_label == res.label
    IN  IF current_label \in ValidationLabels
        THEN LET final_label ==
                    IF current_label = "Note_OR_Comment"
                    THEN ResolveNoteOrComment(word_count)
                    ELSE IF ValidationCondition(current_label, word_count)
                         THEN LabelIfTrue(current_label)
                         ELSE LabelIfFalse(current_label)
             IN  [res EXCEPT
                     !.label = final_label,
                     !.steps = Append(@, [step |-> "D",
                                          name |-> "Validation (Length-Based Refinement)",
                                          current_label |-> current_label,
                                          word_count |-> word_count,
                                          condition_met |->
                                              IF current_label # "Note_OR_Comment"
                                              THEN <<ValidationCondition(current_label, word_count)>>
                                              ELSE <<>>,
                                          final_label |-> final_label])]
        ELSE [res EXCEPT
                 !.steps = Append(@, [step |-> "D",
                                      name |-> "Validation (Length-Based Refinement)",
                                      note |-> <<"Unknown label", current_label>>])]

----------------------------------------------------------------------------
(* Step E *)

\* _step_e_llm_fallback without the requires_manual_review assignment
_step_e_llm_fallback_unmarked(paper, res, year) ==
    Put([res EXCEPT
            !.steps = Append(@, [step |-> "E",
                                 name |-> "LLM Fallback (TODO)",
                                 status |-> "PENDING_API_KEY"])],
        "label", "ERROR")

\* _step_e_llm_fallback(paper_data, result, publication_year)
_step_e_llm_fallback(paper, res, year) ==
    Put(Put([res EXCEPT
                !.steps = Append(@, [step |-> "E",
                                     name |-> "LLM Fallback (TODO)",
                                     status |-> "PENDING_API_KEY"])],
            "label", "ERROR"),
        "requires_manual_review", TRUE)

\* classification_result.get('requires_manual_review', False)
RequiresManualReview(res) == Get(res, "requires_manual_review", FALSE)

----------------------------------------------------------------------------
(* Inputs of classify *)

\* most section-header words in a generated main text
MaxHeaders == 3

HeaderWords == <<kwARTICLE, kwESSAY, kwNOTE, kwCOMMENT, kwSTUDENT_CONTRIBUTION>>

\* main texts made of up to MaxHeaders section-header words, in every order
HeaderTexts ==
    UNION {{Join([i \in 1..n |-> HeaderWords[f[i]]]) : f \in [1..n -> 1..Len(HeaderWords)]} :
           n \in 0..MaxHeaders}

strFOOTNOTE == <<"F","O","O","T","N","O","T","E">>
strNotesLower == <<"N","o","t","e","s">>

\* main texts with a plural header, a keyword inside a longer word, a
\* lower-case word, a header between prose, and a header at the end of,
\* across, and beyond the searched prefix
SpecialTexts ==
    {kwNOTES,
     strFOOTNOTE,
     strNotesLower,
     Pad(5) \o <<" ">> \o kwESSAYS \o <<" ">> \o Pad(5),
     Pad(KeywordPrefixLen - Len(kwCOMMENT)) \o kwCOMMENT,
     Pad(KeywordPrefixLen - 2) \o kwCOMMENT,
     Pad(KeywordPrefixLen) \o kwCOMMENT}

MainTexts == HeaderTexts \cup SpecialTexts

strJaneDoe == <<"J","a","n","e"," ","D","o","e">>
strClassOfLower == <<"c","l","a","s","s"," ","o","f"," ">>

\* class years written in the authors strings
ClassYears == {2000, 2001, 2008, 2009}

\* authors strings: none, a plain name, a J.D. candidate, "Class of YYYY"
\* (alone, after a far year, in lower case, with three digits only)
AuthorsStrings ==
    {<<>>,
     strJaneDoe,
     strJaneDoe \o <<",", " ">> \o strJDCandidate,
     strClassOfLower \o YearDigits(2004),
     strClassOf \o <<"2", "0", "0">>}
    \cup {strJaneDoe \o <<",", " ">> \o strClassOf \o YearDigits(y) : y \in ClassYears}
    \cup {strClassOf \o YearDigits(1990) \o <<" ">> \o strClassOf \o YearDigits(y) \o <<"1">> :
          y \in {2001, 2009}}

PublicationYears == {2004, 2005}

PageCounts == {3, 4}

WordCounts == {9999, 10000, 16000, 20000, 20001}

Titles == {"Paper"}

----------------------------------------------------------------------------
(* classify, one position per step call *)

\* LawReviewClassifier.__init__
Init ==
    /\ pc = "idle"
    /\ paper_data = <<>>
    /\ publication_year = 0
    /\ result = <<>>
    /\ classification_log = <<>>
    /\ after = <<>>
    /\ returned = <<>>
    /\ ex = <<>>
    /\ run = <<>>

\* the result dict classify creates at entry
NewResult == [label |-> "Unlabeled", steps |-> <<>>, confidence |-> 0, errors |-> <<>>]

\* classify is called: the fresh result dict
Call ==
    /\ pc = "idle"
    /\ \E title \in Titles, authors \in AuthorsStrings, words \in WordCounts,
          pages \in PageCounts, main_text \in MainTexts :
          paper_data' = [title |-> title, authors |-> authors, words |-> words,
                         pages |-> pages, main_text |-> main_text]
    /\ \E year \in PublicationYears : publication_year' = year
    /\ result' = NewResult
    /\ after' = <<>>
    /\ pc' = "A"
    /\ UNCHANGED <<classification_log, returned, ex, run>>

\* result = self._step_a_preprocessing(...); return when the label was set
StepA ==
    /\ pc = "A"
    /\ result' = _step_a_preprocessing(paper_data, result)
    /\ after' = Append(after, [step |-> "A", label |-> result'.label])
    /\ pc' = IF result'.label # "Unlabeled" THEN "done" ELSE "B"
    /\ UNCHANGED <<paper_data, publication_year, classification_log, returned, ex, run>>

\* result = self._step_b_keyword_lookup(...)
StepB ==
    /\ pc = "B"
    /\ result' = _step_b_keyword_lookup(paper_data, result)
    /\ after' = Append(after, [step |-> "B", label |-> result'.label])
    /\ pc' = "C"
    /\ UNCHANGED <<paper_data, publication_year, classification_log, returned, ex, run>>

\* result = self._step_c_student_check(...)
StepC ==
    /\ pc = "C"
    /\ result' = _step_c_student_check(paper_data, result, publication_year)
    /\ after' = Append(after, [step |-> "C", label |-> result'.label])
    /\ pc' = "D"
    /\ UNCHANGED <<paper_data, publication_year, classification_log, returned, ex, run>>

\* StepD handing a label that is still a key of the table back to Step D
StepD_reentrant ==
    /\ pc = "D"
    /\ result' = _step_d_validation(result)
    /\ after' = Append(after, [step |-> "D", label |-> result'.label])
    /\ pc' = IF result'.label = "ERROR" THEN "E"
             ELSE IF result'.label \in ValidationLabels THEN "D"
             ELSE "log"
    /\ UNCHANGED <<paper_data, publication_year, classification_log, returned, ex, run>>

\* result = self._step_d_validation(result); Step E follows only for ERROR
StepD ==
    /\ pc = "D"
    /\ result' = _step_d_validation(result)
    /\ after' = Append(after, [step |-> "D", label |-> result'.label])
    /\ pc' = IF result'.label = "ERROR" THEN "E" ELSE "log"
    /\ UNCHANGED <<paper_data, publication_year, classification_log, returned, ex, run>>

\* result = self._step_e_llm_fallback(...)
StepE ==
    /\ pc = "E"
    /\ result' = _step_e_llm_fallback(paper_data, result, publication_year)
    /\ after' = Append(after, [step |-> "E", label |-> result'.label])
    /\ pc' = "log"
    /\ UNCHANGED <<paper_data, publication_year, classification_log, returned, ex, run>>

\* self.classification_log.append(...); return result
LogAndReturn ==
    /\ pc = "log"
    /\ classification_log' =
          Append(classification_log,
                 [title |-> Get(paper_data, "title", "Unknown"),
                  year |-> publication_year,
                  result |-> result])
    /\ pc' = "done"
    /\ UNCHANGED <<paper_data, publication_year, result, after, returned, ex, run>>

\* classify as a whole: the result it returns
ClassifyResult(paper, year) ==
    LET rA == _step_a_preprocessing(paper, NewResult) IN
    IF rA.label # "Unlabeled" THEN rA
    ELSE LET rB == _step_b_keyword_lookup(paper, rA)
             rC == _step_c_student_check(paper, rB, year)
             rD == _step_d_validation(rC)
         IN  IF rD.label = "ERROR" THEN _step_e_llm_fallback(paper, rD, year) ELSE rD

\* classify as a whole: whether the call reaches the log append
ClassifyLogs(paper, year) == _step_a_preprocessing(paper, NewResult).label = "Unlabeled"

\* classify as a whole: self.classification_log after the call
ClassifyLog(log, paper, year) ==
    IF ClassifyLogs(paper, year)
    THEN Append(log, [title |-> Get(paper, "title", "Unknown"),
                      year |-> year,
                      result |-> ClassifyResult(paper, year)])
    ELSE log

Next == Call \/ StepA \/ StepB \/ StepC \/ StepD \/ StepE \/ LogAndReturn

Spec == Init /\ [][Next]_vars

----------------------------------------------------------------------------
(* Repeated calls of classify on one classifier *)

\* most calls of classify in one run
MaxCalls == 3

strARTICLE_NOTE == kwARTICLE \o <<" ">> \o kwNOTE

\* the papers classified in a run of repeated calls
RunPapers ==
    {[title |-> "Short", authors |-> strJaneDoe, words |-> 16000, pages |-> 3,
      main_text |-> kwARTICLE],
     [title |-> "Article", authors |-> strJaneDoe, words |-> 16000, pages |-> 4,
      main_text |-> kwARTICLE],
     [title |-> "Essay", authors |-> strJaneDoe, words |-> 16000, pages |-> 4,
      main_text |-> kwESSAY],
     [title |-> "Mixed", authors |-> strJaneDoe, words |-> 16000, pages |-> 4,
      main_text |-> strARTICLE_NOTE],
     [title |-> "Student", authors |-> strJaneDoe \o <<",", " ">> \o strJDCandidate,
      words |-> 9999, pages |-> 4, main_text |-> <<>>],
     [title |-> "Class", authors |-> strClassOf \o YearDigits(2001),
      words |-> 9999, pages |-> 4, main_text |-> <<>>]}

\* CallRun handing the previous call's result dict to the next call
CallRun_shared ==
    /\ pc \in {"idle", "done"}
    /\ Len(returned) + (IF pc = "done" THEN 1 ELSE 0) < MaxCalls
    /\ returned' = IF pc = "done"
                   THEN Append(returned, [paper_data |-> paper_data,
                                          publication_year |-> publication_year,
                                          result |-> result])
                   ELSE returned
    /\ \E paper \in RunPapers : paper_data' = paper
    /\ \E year \in PublicationYears : publication_year' = year
    /\ result' = IF pc = "done" THEN result ELSE NewResult
    /\ after' = <<>>
    /\ pc' = "A"
    /\ UNCHANGED <<classification_log, ex, run>>

\* classify is called, for the first time or after an earlier call returned
CallRun ==
    /\ pc \in {"idle", "done"}
    /\ Len(returned) + (IF pc = "done" THEN 1 ELSE 0) < MaxCalls
    /\ returned' = IF pc = "done"
                   THEN Append(returned, [paper_data |-> paper_data,
                                          publication_year |-> publication_year,
                                          result |-> result])
                   ELSE returned
    /\ \E paper \in RunPapers : paper_data' = paper
    /\ \E year \in PublicationYears : publication_year' = year
    /\ result' = NewResult
    /\ after' = <<>>
    /\ pc' = "A"
    /\ UNCHANGED <<classification_log, ex, run>>

NextRun == CallRun \/ StepA \/ StepB \/ StepC \/ StepD \/ StepE \/ LogAndReturn

SpecRun == Init /\ [][NextRun]_vars

----------------------------------------------------------------------------
(* PDF pages as find_footnote_separator reads them *)

\* a coordinate of a geometry primitive: a number, or a value that is none
Num(v) == [num |-> TRUE, val |-> v]
NotANumber == [num |-> FALSE, val |-> 0]

\* a well-formed primitive (x0, top, x1, bottom)
Prim(x0, top, x1, bottom) == <<Num(x0), Num(top), Num(x1), Num(bottom)>>

WhitespaceChars == {" ", "\n", "\t"}

IsSpace(c) == c \in WhitespaceChars

\* len(text.split())
WordCount(text) ==
    Cardinality({i \in 1..Len(text) :
                    /\ ~IsSpace(text[i])
                    /\ (i = 1 \/ IsSpace(text[i - 1]))})

\* text.strip()
Strip(text) ==
    LET kept == {i \in 1..Len(text) : ~IsSpace(text[i])} IN
    IF kept = {} THEN <<>>
    ELSE SubSeq(text,
                CHOOSE i \in kept : \A j \in kept : i <= j,
                CHOOSE i \in kept : \A j \in kept : j <= i)

\* text.count('\n')
NewlineCount(text) == Cardinality({i \in 1..Len(text) : text[i] = "\n"})

UpperLetters ==
    <<"A","B","C","D","E","F","G","H","I","J","K","L","M",
      "N","O","P","Q","R","S","T","U","V","W","X","Y","Z">>
LowerLetters ==
    <<"a","b","c","d","e","f","g","h","i","j","k","l","m",
      "n","o","p","q","r","s","t","u","v","w","x","y","z">>

\* the lower-case letter of each upper-case letter
LowerOf ==
    [c \in ToSet(UpperLetters) |->
        LowerLetters[CHOOSE k \in 1..26 : UpperLetters[k] = c]]

\* text.lower()
Lower(text) ==
    [i \in 1..Len(text) |-> IF text[i] \in DOMAIN LowerOf THEN LowerOf[text[i]] ELSE text[i]]

\* "\n".join(lines)
RECURSIVE JoinLines(_)
JoinLines(parts) ==
    IF parts = <<>> THEN <<>>
    ELSE IF Len(parts) = 1 THEN parts[1]
    ELSE parts[1] \o <<"\n">> \o JoinLines(Tail(parts))

\* extract_text() of the part of a page with top <= y < bottom: the text
\* lines placed there, top to bottom, joined by newlines ("" when there are none)
RegionText(page, top, bottom) ==
    LET InRegion(item) == top <= item.y /\ item.y < bottom
        chosen == SelectSeq(page.items, InRegion)
    IN  JoinLines([k \in 1..Len(chosen) |-> chosen[k].text])

\* page.extract_text() or ""
PageText(page) == RegionText(page, 0, page.height + 1)

----------------------------------------------------------------------------
(* find_footnote_separator *)

\* abs(top - bottom) < 2
HorizontalTolerance == 2

\* the candidate a page.lines entry adds to horizontal_lines: <<>> when it adds
\* none, also when unpacking or arithmetic raises ValueError / TypeError
LineCandidate(line, page_width) ==
    IF Len(line) # 4 THEN <<>>
    ELSE LET x0 == line[1]  top == line[2]  x1 == line[3]  bottom == line[4] IN
         IF ~top.num \/ ~bottom.num THEN <<>>
         ELSE IF Abs(top.val - bottom.val) < HorizontalTolerance
              THEN IF ~x0.num \/ ~x1.num THEN <<>>
                   ELSE IF 2 * Abs(x1.val - x0.val) > page_width
                        THEN <<[y |-> top.val,
                                x0 |-> Min(x0.val, x1.val),
                                x1 |-> IF x0.val >= x1.val THEN x0.val ELSE x1.val,
                                width |-> Abs(x1.val - x0.val)]>>
                        ELSE <<>>
              ELSE <<>>

\* the candidate a page.rects entry adds to horizontal_lines
RectCandidate(rect, page_width) ==
    IF Len(rect) # 4 THEN <<>>
    ELSE LET x0 == rect[1]  top == rect[2]  x1 == rect[3]  bottom == rect[4] IN
         IF ~top.num \/ ~bottom.num THEN <<>>
         ELSE IF ~x0.num \/ ~x1.num THEN <<>>
         ELSE IF Abs(bottom.val - top.val) < HorizontalTolerance
                 /\ 2 * Abs(x1.val - x0.val) > page_width
              THEN <<[y |-> top.val,
                      x0 |-> Min(x0.val, x1.val),
                      x1 |-> IF x0.val >= x1.val THEN x0.val ELSE x1.val,
                      width |-> Abs(x1.val - x0.val)]>>
              ELSE <<>>

\* page.lines read up to the first entry that is not four numbers
RECURSIVE LineCandidates_abort(_, _)
LineCandidates_abort(prims, page_width) ==
    IF prims = <<>> THEN <<>>
    ELSE IF Len(Head(prims)) # 4 \/ \E k \in 1..Len(Head(prims)) : ~Head(prims)[k].num
         THEN <<>>
         ELSE LineCandidate(Head(prims), page_width)
                  \o LineCandidates_abort(Tail(prims), page_width)

\* horizontal_lines of a page: the line candidates, then the rect candidates
RECURSIVE LineCandidates(_, _)
LineCandidates(prims, page_width) ==
    IF prims = <<>> THEN <<>>
    ELSE LineCandidate(Head(prims), page_width) \o LineCandidates(Tail(prims), page_width)

RECURSIVE RectCandidates(_, _)
RectCandidates(prims, page_width) ==
    IF prims = <<>> THEN <<>>
    ELSE RectCandidate(Head(prims), page_width) \o RectCandidates(Tail(prims), page_width)

HorizontalLines(page) ==
    LineCandidates(page.lines, page.width) \o RectCandidates(page.rects, page.width)

\* the band with its two limits included
InBand_closed(y, page_height) == 5 * y >= page_height /\ 20 * y <= 17 * page_height

\* page_height * 0.2 < line['y'] < page_height * 0.85
InBand(y, page_height) == 5 * y > page_height /\ 20 * y < 17 * page_height

\* separator_candidates
SeparatorCandidates(page) ==
    LET Keep(line) == InBand(line.y, page.height)
    IN  SelectSeq(HorizontalLines(page), Keep)

\* abs(x['y'] - page_height * 0.6), times 5
SeparatorKey(line, page_height) == Abs(5 * line.y - 3 * page_height)

\* min(separator_candidates, key=...): the first candidate with the least key
SeparatorLine(candidates, page_height) ==
    candidates[CHOOSE k \in 1..Len(candidates) :
                  /\ \A j \in 1..Len(candidates) :
                        SeparatorKey(candidates[k], page_height)
                            <= SeparatorKey(candidates[j], page_height)
                  /\ \A j \in 1..(k - 1) :
                        SeparatorKey(candidates[j], page_height)
                            > SeparatorKey(candidates[k], page_height)]

\* the local variables of find_footnote_separator before the first page;
\* separator_y is <<>> for None and <<y>> for a number
SeparatorStart ==
    [main_text |-> <<>>, footnotes_text |-> <<>>,
     separator_found |-> FALSE, separator_y |-> <<>>, raised |-> FALSE]

\* one iteration of the loop over pdf.pages
ProcessPage(st, page) ==
    IF page.fails THEN [st EXCEPT !.raised = TRUE]
    ELSE
    LET separator_candidates == SeparatorCandidates(page)
        separator_y == IF separator_candidates # <<>>
                       THEN <<SeparatorLine(separator_candidates, page.height).y>>
                       ELSE st.separator_y
        separator_found == IF separator_candidates # <<>> THEN TRUE
                           ELSE st.separator_found
    IN  IF separator_found /\ separator_y # <<>>
        THEN [st EXCEPT
                !.separator_y = separator_y,
                !.separator_found = separator_found,
                !.main_text = @ \o RegionText(page, 0, separator_y[1]) \o <<" ">>,
                !.footnotes_text =
                    @ \o RegionText(page, separator_y[1], page.height + 1) \o <<" ">>]
        ELSE [st EXCEPT
                !.separator_y = separator_y,
                !.separator_found = separator_found,
                !.main_text = @ \o PageText(page) \o <<" ">>]

\* the value find_footnote_separator returns from the state after the loop
SeparatorReturn(st) ==
    IF st.raised
    THEN [main_text |-> <<>>, footnotes_text |-> <<>>,
          separator_y |-> <<>>, separator_found |-> FALSE]
    ELSE [main_text |-> Strip(st.main_text), footnotes_text |-> Strip(st.footnotes_text),
          separator_y |-> st.separator_y, separator_found |-> st.separator_found]

\* the loop over pdf.pages, stopped by the first exception
RECURSIVE ProcessPages(_, _)
ProcessPages(st, pages) ==
    IF pages = <<>> \/ st.raised THEN st
    ELSE ProcessPages(ProcessPage(st, Head(pages)), Tail(pages))

\* find_footnote_separator(pdf_content)
find_footnote_separator(pdf) ==
    IF ~pdf.opens THEN SeparatorReturn([SeparatorStart EXCEPT !.raised = TRUE])
    ELSE SeparatorReturn(ProcessPages(SeparatorStart, pdf.pages))

----------------------------------------------------------------------------
(* extract_pdf_text_and_metadata *)

\* num_pages > 3
ScannedPageLimit == 3

\* total_word_count < 100
ScannedWordLimit == 100

\* total_word_count < 800
FrontMatterWordLimit == 800

strContents == <<"c","o","n","t","e","n","t","s">>
strTableOf == <<"t","a","b","l","e"," ","o","f">>
strEditor == <<"e","d","i","t","o","r">>
strForeword == <<"f","o","r","e","w","o","r","d">>
strPreface == <<"p","r","e","f","a","c","e">>
strIntroductionTo == <<"i","n","t","r","o","d","u","c","t","i","o","n"," ","t","o">>
strNoteFrom == <<"n","o","t","e"," ","f","r","o","m">>

\* intro_markers
IntroMarkers == <<strEditor, strForeword, strPreface, strIntroductionTo, strNoteFrom>>

\* the two buffers put together without the separating blank
FullText_glued(main_text, footnotes_text) == main_text \o footnotes_text

\* full_text = main_text + " " + footnotes_text
FullText(main_text, footnotes_text) == main_text \o <<" ">> \o footnotes_text

\* the test with both limits included
ScannedPdfDetected_inclusive(num_pages, total_word_count) ==
    num_pages >= ScannedPageLimit /\ total_word_count <= ScannedWordLimit

\* the scanned_pdf_detected test
ScannedPdfDetected(num_pages, total_word_count) ==
    num_pages > ScannedPageLimit /\ total_word_count < ScannedWordLimit

\* the likely_table_of_contents test
LikelyTableOfContents(main_text, total_word_count) ==
    LET lowered == Lower(main_text) IN
    /\ Contains(lowered, strContents) \/ Contains(lowered, strTableOf)
    /\ 10 * NewlineCount(main_text) > 3 * total_word_count

\* the likely_front_matter test
LikelyFrontMatter(main_text, total_word_count) ==
    LET lowered == Lower(main_text) IN
    /\ total_word_count < FrontMatterWordLimit
    /\ \E k \in 1..Len(IntroMarkers) : Contains(lowered, IntroMarkers[k])

\* flags, in the order the code appends them
Flags(num_pages, main_text, total_word_count) ==
    (IF ScannedPdfDetected(num_pages, total_word_count)
     THEN <<"scanned_pdf_detected">> ELSE <<>>)
    \o (IF LikelyTableOfContents(main_text, total_word_count)
        THEN <<"likely_table_of_contents">> ELSE <<>>)
    \o (IF LikelyFrontMatter(main_text, total_word_count)
        THEN <<"likely_front_matter">> ELSE <<>>)

\* the dict extract_pdf_text_and_metadata builds from the segmentation
Metadata(num_pages, seg) ==
    LET full_text == FullText(seg.main_text, seg.footnotes_text)
        total_word_count == WordCount(full_text)
    IN  [words |-> total_word_count,
         main_text_words |-> WordCount(seg.main_text),
         footnote_words |-> WordCount(seg.footnotes_text),
         char_count_total |-> Len(full_text),
         char_count_no_space |->
             Cardinality({i \in 1..Len(full_text) : ~IsSpace(full_text[i])}),
         pages |-> num_pages,
         main_text |-> seg.main_text,
         footnotes_text |-> seg.footnotes_text,
         has_footnote_separator |-> seg.separator_found,
         separator_position |-> seg.separator_y,
         ocr_used |-> FALSE,
         flags |-> Flags(num_pages, seg.main_text, total_word_count),
         text_extracted |-> Strip(full_text),
         title |-> "unknown title"]

\* extract_pdf_text_and_metadata(pdf_content): <<>> for None, <<metadata>> otherwise
extract_pdf_text_and_metadata(pdf) ==
    IF ~pdf.opens THEN <<>>
    ELSE <<Metadata(Len(pdf.pages), find_footnote_separator(pdf))>>

----------------------------------------------------------------------------
(* Documents given to the extraction *)

\* the side of the square pages of the documents explored
PageSize == 100

\* the number of pages of the documents built from PagePool
MaxPages == 2

tBody == <<"B","o","d","y"," ","t","e","x","t">>
tMore == <<"m","o","r","e">>
tNote == <<"1"," ","S","e","e"," ","i","d">>
tForeword == <<"F","o","r","e","w","o","r","d">>

\* text lines at the top and near the bottom of a page
BodyAndNote == <<[y |-> 10, text |-> tBody], [y |-> 70, text |-> tNote]>>

Page(lines, rects, items) ==
    [width |-> PageSize, height |-> PageSize,
     lines |-> lines, rects |-> rects, items |-> items, fails |-> FALSE]

\* no rule at all
pPlain == Page(<<>>, <<>>, <<[y |-> 10, text |-> tBody], [y |-> 70, text |-> tMore]>>)

\* one rule at 0.6 of the height, drawn right to left
pSep == Page(<<Prim(90, 60, 10, 60)>>, <<>>, BodyAndNote)

\* a line high on the page and a rect nearer to 0.6 of the height
pTwo == Page(<<Prim(10, 30, 90, 31)>>, <<Prim(10, 65, 90, 66)>>, BodyAndNote)

\* two rules equally far from 0.6 of the height
pTie == Page(<<Prim(10, 68, 90, 68), Prim(10, 52, 90, 52)>>, <<>>, BodyAndNote)

\* malformed primitives before well-formed ones
pMalformed ==
    Page(<<<<Num(10), Num(40), Num(90)>>,
           <<Num(10), NotANumber, Num(90), Num(40)>>,
           <<NotANumber, Num(40), Num(90), Num(40)>>,
           Prim(10, 50, 90, 50)>>,
         <<<<Num(10), Num(55), Num(90), Num(55), Num(0)>>,
           <<Num(10), Num(58), NotANumber, Num(58)>>,
           Prim(10, 75, 90, 76)>>,
         BodyAndNote)

\* a rule of half the width, a slanted line and a thick rect
pNarrow ==
    Page(<<Prim(10, 60, 60, 60), Prim(10, 60, 90, 62)>>,
         <<Prim(10, 60, 90, 62)>>, BodyAndNote)

\* rules exactly on the limits of the band
pEdge == Page(<<Prim(10, 20, 90, 20)>>, <<Prim(10, 85, 90, 85)>>, BodyAndNote)

\* rules just inside the limits of the band
pInside == Page(<<Prim(10, 21, 90, 21)>>, <<Prim(10, 84, 90, 84)>>, BodyAndNote)

\* a page without text
pEmpty == Page(<<Prim(10, 60, 90, 60)>>, <<>>, <<>>)

\* front matter
pForeword == Page(<<>>, <<>>, <<[y |-> 10, text |-> tForeword], [y |-> 70, text |-> tMore]>>)

\* a page whose text extraction raises
pFails == [pPlain EXCEPT !.fails = TRUE]

PagePool ==
    {pPlain, pSep, pTwo, pTie, pMalformed, pNarrow, pEdge, pInside, pEmpty,
     pForeword, pFails}

RECURSIVE PageSeqs(_)
PageSeqs(n) ==
    IF n = 0 THEN {<<>>}
    ELSE LET shorter == PageSeqs(n - 1) IN
         shorter \cup {Append(s, p) : s \in {t \in shorter : Len(t) = n - 1}, p \in PagePool}

\* four pages with few words, with and without a rule on the first page
LongPages == {<<pPlain, pPlain, pPlain, pPlain>>, <<pSep, pPlain, pPlain, pEdge>>}

PdfDocs ==
    {[opens |-> TRUE, pages |-> s] : s \in (PageSeqs(MaxPages) \ {<<>>}) \cup LongPages}
    \cup {[opens |-> FALSE, pages |-> <<>>]}

----------------------------------------------------------------------------
(* extract_pdf_text_and_metadata, one step at a time *)

ExStage == IF DOMAIN ex = {} THEN "idle" ELSE ex.stage

\* extract_pdf_text_and_metadata(pdf_content) is called
ExtractCall ==
    /\ ExStage = "idle"
    /\ \E pdf \in PdfDocs :
          ex' = [stage |-> "open", pdf |-> pdf, num_pages |-> 0, page_num |-> 0,
                 st |-> SeparatorStart, pages_log |-> <<>>,
                 seg |-> SeparatorReturn(SeparatorStart), ret |-> <<>>]
    /\ UNCHANGED <<pc, paper_data, publication_year, result, classification_log,
                   after, returned, run>>

\* pdfplumber.open and len(pdf.pages); a failure returns None
OpenPdf ==
    /\ ExStage = "open"
    /\ ex' = IF ex.pdf.opens
             THEN [ex EXCEPT !.stage = "pages", !.num_pages = Len(ex.pdf.pages)]
             ELSE [ex EXCEPT !.stage = "done", !.ret = <<>>]
    /\ UNCHANGED <<pc, paper_data, publication_year, result, classification_log,
                   after, returned, run>>

\* one iteration of the page loop of find_footnote_separator
SeparatorPage ==
    /\ ExStage = "pages"
    /\ ~ex.st.raised
    /\ ex.page_num < Len(ex.pdf.pages)
    /\ LET page == ex.pdf.pages[ex.page_num + 1]
           next == ProcessPage(ex.st, page)
       IN  ex' = [ex EXCEPT !.page_num = @ + 1,
                            !.st = next,
                            !.pages_log = Append(@, [page |-> page,
                                                     before |-> ex.st,
                                                     after |-> next])]
    /\ UNCHANGED <<pc, paper_data, publication_year, result, classification_log,
                   after, returned, run>>

\* find_footnote_separator returns, from the loop's end or from its handler
SeparatorDone ==
    /\ ExStage = "pages"
    /\ ex.st.raised \/ ex.page_num = Len(ex.pdf.pages)
    /\ ex' = [ex EXCEPT !.stage = "metadata", !.seg = SeparatorReturn(ex.st)]
    /\ UNCHANGED <<pc, paper_data, publication_year, result, classification_log,
                   after, returned, run>>

\* the counts, the flags and the returned dict
BuildMetadata ==
    /\ ExStage = "metadata"
    /\ ex' = [ex EXCEPT !.stage = "done", !.ret = <<Metadata(ex.num_pages, ex.seg)>>]
    /\ UNCHANGED <<pc, paper_data, publication_year, result, classification_log,
                   after, returned, run>>

NextExtract ==
    \/ ExtractCall
    \/ OpenPdf
    \/ SeparatorPage
    \/ SeparatorDone
    \/ BuildMetadata

SpecExtract == Init /\ [][NextExtract]_vars

\* the step-by-step extraction returns what the function computes
ExtractAgrees ==
    ExStage = "done" => ex.ret = extract_pdf_text_and_metadata(ex.pdf)

----------------------------------------------------------------------------
(* scrape_law_journal *)

\* for issue in range(1, 7)
IssuesPerYear == 6

\* for article_num in range(1, 21)
ArticlesPerIssue == 20

\* if consecutive_failures >= 3: break
FailureLimit == 3

\* the number of article pages a run requests before it is left alone
MaxDownloads == 4

\* n one-letter words
Words(n) == [i \in 1..(2 * n - 1) |-> IF i % 2 = 1 THEN "w" ELSE " "]

\* a page with a section header and a hundred words
pLong == Page(<<>>, <<>>, <<[y |-> 10, text |-> kwARTICLE], [y |-> 30, text |-> Words(100)]>>)

\* a page of n words
pWords(n) == Page(<<>>, <<>>, <<[y |-> 10, text |-> Words(n)]>>)

\* what download_pdf returns for a page that has a PDF
Downloaded(pages, page_title) ==
    [pdf_content |-> <<[opens |-> TRUE, pages |-> pages]>>,
     page_title |-> page_title, authors_string |-> strJaneDoe, is_multi_author |-> FALSE]

\* return None, None, None, None
DownloadFailed ==
    [pdf_content |-> <<>>, page_title |-> "", authors_string |-> <<>>,
     is_multi_author |-> FALSE]

\* the answers of the site: no PDF, a PDF that does not open, PDFs of at most
\* three pages and of four pages with and without a page that fails, front
\* matter, a PDF of four pages with more than a hundred words, PDFs of four
\* pages with 99 and with 100 words, and a PDF of three pages with few words
Downloads ==
    {DownloadFailed,
     [Downloaded(<<>>, "Broken") EXCEPT !.pdf_content = <<[opens |-> FALSE, pages |-> <<>>]>>],
     Downloaded(<<pSep, pPlain>>, "Brief"),
     Downloaded(<<pSep, pFails>>, "Torn"),
     Downloaded(<<pFails, pPlain, pPlain, pPlain>>, "Torn long"),
     Downloaded(<<pPlain, pPlain, pPlain, pPlain>>, "Scanned"),
     Downloaded(<<pForeword>>, ""),
     Downloaded(<<pLong, pSep, pPlain, pPlain>>, "Long"),
     Downloaded(<<pWords(ScannedWordLimit - 1), pEmpty, pEmpty, pEmpty>>, "Sparse"),
     Downloaded(<<pWords(ScannedWordLimit), pEmpty, pEmpty, pEmpty>>, "Dense"),
     Downloaded(<<pPlain, pPlain, pPlain>>, "Three")}

\* if metadata['flags']: with every flag but scanned_pdf_detected ignored
IsFlagged_scannedOnly(metadata) == "scanned_pdf_detected" \in ToSet(metadata.flags)

\* if metadata['flags']:
IsFlagged(metadata) == metadata.flags # <<>>

\* metadata['title'] after the page title has replaced "unknown title"
TitleOf(metadata, page_title) ==
    IF metadata.title = "unknown title" /\ page_title # "" THEN page_title
    ELSE metadata.title

\* paper_data as the scrape builds it
PaperData(metadata, dl) ==
    [title |-> TitleOf(metadata, dl.page_title),
     authors |-> dl.authors_string,
     words |-> metadata.words,
     pages |-> metadata.pages,
     main_text |-> metadata.main_text]

\* whether some step of the extraction of a PDF raises an exception
ExtractionRaises(pdf) ==
    ~pdf.opens \/ ProcessPages(SeparatorStart, pdf.pages).raised

\* what classify appends to the classification log for a result it returns
ClassifyLogged(paper, year, res) ==
    IF ClassifyLogs(paper, year)
    THEN <<[title |-> Get(paper, "title", "Unknown"), year |-> year, result |-> res]>>
    ELSE <<>>

\* the branch the article loop takes: no PDF, metadata None, a flag, or
\* the classification
Branch(dl, metadata) ==
    IF dl.pdf_content = <<>> THEN "no_pdf"
    ELSE IF metadata = <<>> THEN "no_metadata"
    ELSE IF IsFlagged(metadata[1]) THEN "flagged"
    ELSE "classified"

\* the classification branch once classify has returned
Classified(metadata, paper, year, res) ==
    [metadata |-> metadata, outcome |-> "classified", paper |-> <<paper>>,
     classification_result |-> <<res>>, logged |-> ClassifyLogged(paper, year, res)]

\* the body of the article loop after the extraction
Routed(metadata, outcome, paper, year) ==
    IF outcome = "classified"
    THEN Classified(metadata, paper, year, ClassifyResult(paper, year))
    ELSE [metadata |-> metadata, outcome |-> outcome, paper |-> <<>>,
          classification_result |-> <<>>, logged |-> <<>>]

\* the body of the article loop after the download
Extracted_then(dl, year, metadata) ==
    Routed(metadata, Branch(dl, metadata),
           IF metadata = <<>> THEN <<>> ELSE PaperData(metadata[1], dl), year)

\* the body of the article loop from the download on: the metadata (<<>>
\* for None or for no PDF), the branch taken, and on the classification
\* branch paper_data, the result of classify and what classify appends to
\* the classification log
ArticleOutcome(dl, year) ==
    Extracted_then(dl, year,
                   IF dl.pdf_content = <<>> THEN <<>>
                   ELSE extract_pdf_text_and_metadata(dl.pdf_content[1]))

\* the outcome of every answer of the site in every year of the run
Outcomes == [dl \in Downloads, year \in PublicationYears |-> ArticleOutcome(dl, year)]

\* whether an except clause of the extraction is entered, for every answer
Raises ==
    [dl \in Downloads |-> dl.pdf_content # <<>> /\ ExtractionRaises(dl.pdf_content[1])]

\* consecutive_failures after an article: 0 after a classified document,
\* one more after a flagged document, a metadata of None or no PDF
FailuresAfter(consecutive_failures, outcome) ==
    IF outcome = "classified" THEN 0 ELSE consecutive_failures + 1

\* the last three articles tried in the issue, oldest first: the branch
\* taken and whether the extraction entered an except clause
LastThree(recent, dl, outcome) ==
    LET tried == [outcome |-> outcome, raises |-> Raises[dl]] IN
    IF Len(recent) < FailureLimit THEN Append(recent, tried)
    ELSE Append(Tail(recent), tried)

ScrapeStage == IF DOMAIN run = {} THEN "idle" ELSE run.stage

\* the loop over article_num has ended, by exhaustion or by the break
ArticlesEnded ==
    /\ ScrapeStage = "articles"
    /\ run.article_num > ArticlesPerIssue \/ run.consecutive_failures >= FailureLimit

\* the loop over the issues of the year has ended, by exhaustion or by the break
IssuesEnded == ArticlesEnded /\ (run.articles_found = 0 \/ run.issue = IssuesPerYear)

\* scrape_law_journal is called on a new classifier
ScrapeStart ==
    /\ ScrapeStage = "idle"
    /\ pc = "idle"
    /\ \E end_year \in PublicationYears :
          run' = [stage |-> "articles", end_year |-> end_year,
                  year |-> 2004, issue |-> 1, article_num |-> 1,
                  articles_found |-> 0, consecutive_failures |-> 0,
                  results |-> <<>>, flagged_articles |-> <<>>, events |-> <<>>,
                  tried |-> {}, recent |-> <<>>,
                  flagged_saved |-> <<>>, log_saved |-> <<>>]
    /\ classification_log' = <<>>
    /\ UNCHANGED <<pc, paper_data, publication_year, result, after, returned, ex>>

\* one iteration of the loop over article_num
ScrapeArticle ==
    /\ ScrapeStage = "articles"
    /\ run.article_num <= ArticlesPerIssue
    /\ run.consecutive_failures < FailureLimit
    /\ Len(run.events) < MaxDownloads
    /\ \E dl \in Downloads :
          LET at == [year |-> run.year, issue |-> run.issue, article |-> run.article_num]
              done == Outcomes[dl, run.year]
              event == [at |-> at, download |-> dl, outcome |-> done.outcome,
                        log_before |-> Len(classification_log),
                        log_after |-> Len(classification_log')]
          IN  /\ classification_log' = classification_log \o done.logged
              /\ run' =
                    [run EXCEPT
                       !.article_num = @ + 1,
                       !.events = Append(@, event),
                       !.tried = @ \cup {run.article_num},
                       !.recent = LastThree(@, dl, done.outcome),
                       !.flagged_articles =
                           IF done.outcome = "flagged"
                           THEN Append(@, [at |-> at,
                                           flags |-> done.metadata[1].flags,
                                           word_count |-> done.metadata[1].words,
                                           pages |-> done.metadata[1].pages])
                           ELSE @,
                       !.results =
                           IF done.outcome = "classified"
                           THEN Append(@, [at |-> at,
                                           title |-> done.paper[1].title,
                                           authors |-> done.paper[1].authors,
                                           multi_author |-> dl.is_multi_author,
                                           words |-> done.metadata[1].words,
                                           main_text_words |->
                                               done.metadata[1].main_text_words,
                                           footnote_words |->
                                               done.metadata[1].footnote_words,
                                           pages |-> done.metadata[1].pages,
                                           has_footnote_separator |->
                                               done.metadata[1].has_footnote_separator,
                                           classification_label |->
                                               done.classification_result[1].label,
                                           classification_steps |->
                                               done.classification_result[1].steps,
                                           requires_manual_review |->
                                               RequiresManualReview(
                                                   done.classification_result[1])])
                           ELSE @,
                       !.articles_found =
                           IF done.outcome = "classified" THEN @ + 1 ELSE @,
                       !.consecutive_failures = FailuresAfter(@, done.outcome)]
    /\ UNCHANGED <<pc, paper_data, publication_year, result, after, returned, ex>>

\* the next issue of the year, with both counters at 0 again
NextIssue ==
    /\ ArticlesEnded
    /\ ~IssuesEnded
    /\ run' = [run EXCEPT !.issue = @ + 1, !.article_num = 1,
                          !.articles_found = 0, !.consecutive_failures = 0,
                          !.tried = {}, !.recent = <<>>]
    /\ UNCHANGED <<pc, paper_data, publication_year, result, classification_log,
                   after, returned, ex>>

\* the first issue of the next year
NextYear ==
    /\ IssuesEnded
    /\ run.year < run.end_year
    /\ run' = [run EXCEPT !.year = @ + 1, !.issue = 1, !.article_num = 1,
                          !.articles_found = 0, !.consecutive_failures = 0,
                          !.tried = {}, !.recent = <<>>]
    /\ UNCHANGED <<pc, paper_data, publication_year, result, classification_log,
                   after, returned, ex>>

\* after the last year: the flagged list, when it is not empty, and the
\* classification log are written out
SaveFiles ==
    /\ IssuesEnded
    /\ run.year = run.end_year
    /\ run' = [run EXCEPT !.stage = "saved",
                          !.flagged_saved = IF run.flagged_articles # <<>>
                                            THEN <<run.flagged_articles>> ELSE <<>>,
                          !.log_saved = <<classification_log>>]
    /\ UNCHANGED <<pc, paper_data, publication_year, result, classification_log,
                   after, returned, ex>>

NextScrape == ScrapeStart \/ ScrapeArticle \/ NextIssue \/ NextYear \/ SaveFiles

SpecScrape == Init /\ [][NextScrape]_vars

\* one iteration of the loop over article_num, reduced to the control of the
\* loops: the branch taken and the two counters. The records appended to
\* results, flagged_articles and the classification log are left out, so
\* that whole issues of twenty articles can be followed.
ScanArticle ==
    /\ ScrapeStage = "articles"
    /\ run.article_num <= ArticlesPerIssue
    /\ run.consecutive_failures < FailureLimit
    /\ \E dl \in Downloads :
          LET outcome == Outcomes[dl, run.year].outcome IN
          run' = [run EXCEPT
                    !.article_num = @ + 1,
                    !.tried = @ \cup {run.article_num},
                    !.recent = LastThree(@, dl, outcome),
                    !.articles_found = IF outcome = "classified" THEN @ + 1 ELSE @,
                    !.consecutive_failures = FailuresAfter(@, outcome)]
    /\ UNCHANGED <<pc, paper_data, publication_year, result, classification_log,
                   after, returned, ex>>

NextScan == ScrapeStart \/ ScanArticle \/ NextIssue \/ NextYear \/ SaveFiles

SpecScan == Init /\ [][NextScan]_vars

----------------------------------------------------------------------------
(* Observations shared by the properties *)

\* classify has returned
Returned == pc = "done"

\* the label of the returned result
FinalLabel == result.label

\* the 'step' fields of the trace, in order
StepNames == [i \in 1..Len(result.steps) |-> result.steps[i].step]

\* the label after the call of the given step; "" when the step was not called
LabelAfter(step) ==
    IF \E i \in 1..Len(after) : after[i].step = step
    THEN after[CHOOSE i \in 1..Len(after) : after[i].step = step].label
    ELSE ""

StepCalled(step) == \E i \in 1..Len(after) : after[i].step = step

TypeOK ==
    /\ pc \in {"idle", "A", "B", "C", "D", "E", "log", "done"}
    /\ Len(classification_log) <= 1

----------------------------------------------------------------------------
(* Properties *)

\* the closed label set of the data model, confirmed variants included
ClosedLabelSet ==
    LABELS \cup {"Article (confirmed)", "Essay (confirmed)",
                 "Note (confirmed)", "Comment (confirmed)"}

\* the categories Step B found, as its trace record reports them
FoundByStepB == IF StepCalled("B") THEN result.steps[2].categories ELSE <<>>

\* C1: the label of every returned result is a member of the closed label set.
C1_LabelInClosedSet == Returned => FinalLabel \in ClosedLabelSet

\* C2: a document with page_count <= 3 is returned with the label
\* Miscellaneous, and only Step A has run on it.
C2_ShortIsMiscellaneous ==
    (Returned /\ paper_data.pages <= 3)
        => (FinalLabel = "Miscellaneous" /\ StepNames = <<"A">>)

\* the Step D table as the specification states it, on the document's word count
StatedStepD(label, wc) ==
    CASE label = "Article" -> IF wc > 15000 THEN "Article (confirmed)" ELSE "ERROR"
      [] label = "Essay" -> IF wc < 20000 THEN "Essay (confirmed)" ELSE "ERROR"
      [] label = "Article_OR_Essay" -> IF wc > 15000 THEN "Article" ELSE "Essay"
      [] label = "Note" -> IF wc < 18000 THEN "Note (confirmed)" ELSE "ERROR"
      [] label = "Comment" -> IF wc < 10000 THEN "Comment (confirmed)" ELSE "ERROR"

\* C3: when the label entering Step D is Article, Essay, Article_OR_Essay,
\* Note or Comment, the label after Step D is the stated row's outcome for the
\* document's total word count.
C3_StepDTableOnWordCount ==
    (StepCalled("D") /\ paper_data.pages > 3
        /\ LabelAfter("C") \in {"Article", "Essay", "Article_OR_Essay", "Note", "Comment"})
        => LabelAfter("D") = StatedStepD(LabelAfter("C"), paper_data.words)

\* C4: when the label entering Step D is Note_OR_Comment, the label after
\* Step D is Comment below 10000 words, Note from 10000 to 20000 words and
\* ERROR above 20000 words of the document.
C4_NoteOrCommentByWordCount ==
    (StepCalled("D") /\ LabelAfter("C") = "Note_OR_Comment")
        => LabelAfter("D") =
              (IF paper_data.words < 10000 THEN "Comment"
               ELSE IF paper_data.words <= 20000 THEN "Note"
               ELSE "ERROR")

\* C5: a document of more than 3 pages still Unlabeled after Steps B and C
\* leaves Step D as Article when it has more than 18000 words and as ERROR
\* otherwise.
C5_UnlabeledByWordCount ==
    (StepCalled("D") /\ paper_data.pages > 3 /\ LabelAfter("C") = "Unlabeled")
        => LabelAfter("D") = (IF paper_data.words > 18000 THEN "Article" ELSE "ERROR")

\* the direct mapping of a single category, as the specification states it
DirectMapping ==
    [ARTICLE |-> "Article", ESSAY |-> "Essay", NOTE |-> "Note",
     COMMENT |-> "Comment", STUDENT_CONTRIBUTION |-> "Note_OR_Comment"]

\* C6: with exactly one keyword category found, the label after Step B is the
\* direct mapping of that category, Step D receives that label, and no such
\* document is returned without Step D having run on it.
C6_SingleCategoryMapping ==
    (StepCalled("B") /\ Len(FoundByStepB) = 1)
        => /\ LabelAfter("B") = DirectMapping[FoundByStepB[1]]
           /\ pc = "D" => result.label = LabelAfter("B")
           /\ pc \in {"E", "log", "done"} =>
                 /\ StepCalled("D")
                 /\ \E i \in 1..Len(result.steps) :
                       /\ result.steps[i].step = "D"
                       /\ result.steps[i].current_label = LabelAfter("B")

C6_Witness ==
    /\ Returned
    /\ FoundByStepB = <<"NOTE">>
    /\ LabelAfter("B") = "Note"
    /\ LabelAfter("D") = "Note (confirmed)"

\* every order in which the categories of a set can be listed
Orderings(S) == {q \in [1..Cardinality(S) -> S] : ToSet(q) = S}

\* the Step B decision on a set of two or more categories, as stated
StatedDecision(S) ==
    IF S = {"ARTICLE", "ESSAY"} THEN "Article_OR_Essay"
    ELSE IF S = {"NOTE", "COMMENT"} THEN "Note_OR_Comment"
    ELSE "ERROR"

\* C7: the Step B decision on the set of categories found: the two stated
\* pairs give their combined label, every other set of two or more categories
\* gives ERROR, the empty set leaves the label Unlabeled going into Step C,
\* and listing the set in any other order gives the same decision.
C7_DecisionOnCategorySets ==
    StepCalled("B") =>
        LET S == ToSet(FoundByStepB) IN
        /\ Cardinality(S) >= 2 => LabelAfter("B") = StatedDecision(S)
        /\ S = {} => /\ LabelAfter("B") = "Unlabeled"
                     /\ pc = "C" => result.label = "Unlabeled"
        /\ \A q \in Orderings(S) :
              _apply_decision_logic(q) = _apply_decision_logic(FoundByStepB)

C7_Witness ==
    /\ pc = "C"
    /\ Len(paper_data.main_text) > 0
    /\ paper_data.main_text[1] = "E"
    /\ ToSet(FoundByStepB) = {"ARTICLE", "ESSAY"}
    /\ result.label = "Article_OR_Essay"

\* the student-authorship criterion as stated: "J.D. Candidate" occurs in the
\* authors string, or "Class of YYYY" does for a year within 3 of the
\* publication year
StatedStudentAuthor(authors, year) ==
    \/ Contains(authors, strJDCandidate)
    \/ \E y \in (year - 3)..(year + 3) : Contains(authors, strClassOf \o YearDigits(y))

\* C8: Step C turns an Unlabeled label into Note_OR_Comment exactly when the
\* student-authorship criterion holds and the word count is at most 20000,
\* leaves it Unlabeled otherwise, and never changes a label Step B has set.
C8_StepCStudentCheck ==
    StepCalled("C") =>
        IF LabelAfter("B") = "Unlabeled"
        THEN LabelAfter("C") =
                (IF StatedStudentAuthor(paper_data.authors, publication_year)
                    /\ paper_data.words <= 20000
                 THEN "Note_OR_Comment" ELSE "Unlabeled")
        ELSE LabelAfter("C") = LabelAfter("B")

C8_Witness ==
    /\ StepCalled("C")
    /\ LabelAfter("B") = "Unlabeled"
    /\ LabelAfter("C") = "Note_OR_Comment"
    /\ ~Contains(paper_data.authors, strJDCandidate)
    /\ paper_data.words = 20000

\* C9: an ERROR produced by Step B or Step D stays ERROR in every later step
\* and in the returned result, Step E runs exactly when the label after Step D
\* is ERROR, and a returned result requires manual review exactly when its
\* label is ERROR.
C9_ErrorKeptAndMarked ==
    /\ \A i, j \in 1..Len(after) :
          (i < j /\ after[i].step \in {"B", "D"} /\ after[i].label = "ERROR")
              => after[j].label = "ERROR"
    /\ (\E i \in 1..Len(after) : after[i].label = "ERROR") => result.label = "ERROR"
    /\ pc \in {"log", "done"} => (StepCalled("E") <=> LabelAfter("D") = "ERROR")
    /\ Returned => (RequiresManualReview(result) <=> FinalLabel = "ERROR")
    /\ \A k \in 1..Len(classification_log) :
          RequiresManualReview(classification_log[k].result)
              <=> classification_log[k].result.label = "ERROR"

C9_Witness ==
    /\ Returned
    /\ LabelAfter("B") = "ERROR"
    /\ StepCalled("E")
    /\ FinalLabel = "ERROR"
    /\ RequiresManualReview(result)

\* C10 as stated: the trace of every returned document of more than 3 pages
\* holds one record for each of Steps A, B, C and D in that order, followed by
\* a Step E record exactly when the label is ERROR.
C10_EveryStepRecorded ==
    (Returned /\ paper_data.pages > 3)
        => StepNames = <<"A", "B", "C", "D">>
                         \o (IF FinalLabel = "ERROR" THEN <<"E">> ELSE <<>>)

\* C10 amended: the trace of every returned document of more than 3 pages
\* holds one record for each of Steps A and B, then one Step C record exactly
\* when Step B left the label Unlabeled, then one Step D record, then one
\* Step E record exactly when the label is ERROR.
C10_StepsRecordedWhenEvaluated ==
    (Returned /\ paper_data.pages > 3)
        => StepNames = <<"A", "B">>
                         \o (IF LabelAfter("B") = "Unlabeled" THEN <<"C">> ELSE <<>>)
                         \o <<"D">>
                         \o (IF FinalLabel = "ERROR" THEN <<"E">> ELSE <<>>)

C10_Witness ==
    /\ Returned
    /\ LabelAfter("B") = "ERROR"
    /\ StepNames = <<"A", "B", "D", "E">>

\* the number of calls of the given step in the running classification
TimesCalled(step) == Cardinality({i \in 1..Len(after) : after[i].step = step})

\* the positions of the Step D records in the trace
StepDRecords == {i \in 1..Len(result.steps) : result.steps[i].step = "D"}

\* the label Step D reports having received, from its trace record
StepDInput(i) ==
    IF "current_label" \in DOMAIN result.steps[i]
    THEN result.steps[i].current_label
    ELSE result.steps[i].note[2]

\* C11 as stated: Step D has been applied exactly once to every returned
\* document.
C11_StepDOncePerDocument == Returned => TimesCalled("D") = 1

\* C11 amended: Step D is never applied twice; a returned document of more
\* than 3 pages has had it applied exactly once, to the label Steps A-C
\* produced, and one of at most 3 pages never; the label Step D wrote is the
\* label of every later step and of the returned result.
C11_StepDOnceAfterStepA ==
    /\ TimesCalled("D") <= 1
    /\ Returned => TimesCalled("D") = (IF paper_data.pages > 3 THEN 1 ELSE 0)
    /\ StepCalled("D") =>
          /\ Cardinality(StepDRecords) = 1
          /\ \A i \in StepDRecords : StepDInput(i) = LabelAfter("C")
          /\ \A i, j \in 1..Len(after) :
                (i < j /\ after[i].step = "D") => after[j].label = after[i].label
          /\ result.label = LabelAfter("D")

C11_Witness ==
    /\ Returned
    /\ LabelAfter("C") = "Article_OR_Essay"
    /\ LabelAfter("D") = "Essay"
    /\ FinalLabel = "Essay"
    /\ TimesCalled("D") = 1

\* every call of classify that has returned, the running one included, in order
AllReturned ==
    IF pc = "done"
    THEN Append(returned, [paper_data |-> paper_data,
                           publication_year |-> publication_year,
                           result |-> result])
    ELSE returned

\* the composite ClassifyResult agrees with the step-by-step run
ClassifyResultAgrees ==
    Returned => result = ClassifyResult(paper_data, publication_year)

\* C12: two returned calls with the same paper and publication year have
\* identical results, whatever was classified in between, and each returned
\* result is what a call on a new classifier returns for that input.
C12_SameInputSameResult ==
    /\ \A i, j \in 1..Len(AllReturned) :
          (/\ AllReturned[i].paper_data = AllReturned[j].paper_data
           /\ AllReturned[i].publication_year = AllReturned[j].publication_year)
              => AllReturned[i].result = AllReturned[j].result
    /\ \A i \in 1..Len(AllReturned) :
          AllReturned[i].result =
              ClassifyResult(AllReturned[i].paper_data, AllReturned[i].publication_year)

C12_Witness ==
    /\ Len(AllReturned) = 3
    /\ AllReturned[1].paper_data = AllReturned[3].paper_data
    /\ AllReturned[1].publication_year = AllReturned[3].publication_year
    /\ AllReturned[1].paper_data # AllReturned[2].paper_data
    /\ AllReturned[1].result.label = "ERROR"
    /\ AllReturned[3].result = AllReturned[1].result

\* C13: between calls the log has one entry per returned call, in call order,
\* the i-th holding the title, year and result of the i-th call.
C13_OneLogEntryPerCall ==
    pc \in {"idle", "done"} =>
        /\ Len(classification_log) = Len(AllReturned)
        /\ \A i \in 1..Len(classification_log) :
              classification_log[i] =
                  [title |-> AllReturned[i].paper_data.title,
                   year |-> AllReturned[i].publication_year,
                   result |-> AllReturned[i].result]

----------------------------------------------------------------------------
(* Segmentation and word counts *)

\* the metadata of a finished extraction, when there is one
Extracted == ExStage = "done" /\ ex.ret # <<>>

\* the length of the texts on which the word counts are compared directly
MaxTextLen == 3

TextChars == {"a", " ", "\n"}

RECURSIVE TextsUpTo(_)
TextsUpTo(n) ==
    IF n = 0 THEN {<<>>}
    ELSE LET shorter == TextsUpTo(n - 1) IN
         shorter \cup {Append(t, c) : t \in {u \in shorter : Len(u) = n - 1}, c \in TextChars}

\* C15: main_text_words + footnote_words = words in every returned metadata
\* dict, words being the whitespace-split count of main_text + " " +
\* footnotes_text; the same holds of any two buffers, empty and
\* whitespace-only ones included.
C15_WordCountsAdd ==
    /\ Extracted =>
          /\ ex.ret[1].main_text_words + ex.ret[1].footnote_words = ex.ret[1].words
          /\ ex.ret[1].words
                = WordCount(ex.ret[1].main_text \o <<" ">> \o ex.ret[1].footnotes_text)
          /\ ex.ret[1].main_text_words = WordCount(ex.ret[1].main_text)
          /\ ex.ret[1].footnote_words = WordCount(ex.ret[1].footnotes_text)
    /\ ExStage = "open" /\ ~ex.pdf.opens =>
          \A m, f \in TextsUpTo(MaxTextLen) :
              LET seg == [main_text |-> m, footnotes_text |-> f,
                          separator_y |-> <<>>, separator_found |-> FALSE]
                  md == Metadata(1, seg)
              IN  /\ md.main_text_words + md.footnote_words = md.words
                  /\ md.words = WordCount(m \o <<" ">> \o f)

C15_Witness ==
    /\ Extracted
    /\ ex.ret[1].main_text_words > 0
    /\ ex.ret[1].footnote_words > 0
    /\ ex.ret[1].has_footnote_separator

\* the pages the separator loop has finished without an exception
PagesDone == {k \in 1..(IF DOMAIN ex = {} THEN 0 ELSE Len(ex.pages_log)) : ~ex.pages_log[k].after.raised}

\* C16: a page on which no separator candidate survives the filtering has
\* its whole text appended to main_text and nothing appended to
\* footnotes_text, whatever the earlier pages of the document had.
C16_NoCandidateMeansMainTextOnly ==
    \A k \in PagesDone :
        LET e == ex.pages_log[k] IN
        SeparatorCandidates(e.page) = <<>> =>
            /\ e.after.main_text = e.before.main_text \o PageText(e.page) \o <<" ">>
            /\ e.after.footnotes_text = e.before.footnotes_text

WellFormed(prim) == Len(prim) = 4 /\ \A k \in 1..4 : prim[k].num

\* the y of the primitives that are horizontal within the tolerance and span
\* more than half of the page width
StatedCandidates(page) ==
    {q[2].val : q \in {r \in ToSet(page.lines) \cup ToSet(page.rects) :
                          /\ WellFormed(r)
                          /\ Abs(r[2].val - r[4].val) < 2
                          /\ 2 * Abs(r[3].val - r[1].val) > page.width}}

\* those of them strictly between 0.2 and 0.85 of the page height
StatedInBand(page) ==
    {y \in StatedCandidates(page) : 5 * y > page.height /\ 20 * y < 17 * page.height}

\* C17: the candidates of a page are exactly its horizontal primitives wider
\* than half the page; when one lies strictly between 0.2*H and 0.85*H the
\* page's separator is an in-band candidate with no other in-band candidate
\* strictly nearer to 0.6*H; a candidate outside the band is never chosen.
C17_SeparatorSelection ==
    \A k \in PagesDone :
        LET e == ex.pages_log[k]
            H == e.page.height
            band == StatedInBand(e.page)
        IN  /\ {c.y : c \in ToSet(HorizontalLines(e.page))} = StatedCandidates(e.page)
            /\ {c.y : c \in ToSet(SeparatorCandidates(e.page))} = band
            /\ band # {} =>
                  /\ e.after.separator_found
                  /\ \E y \in band :
                        /\ e.after.separator_y = <<y>>
                        /\ \A z \in band : Abs(5 * y - 3 * H) <= Abs(5 * z - 3 * H)
            /\ band = {} =>
                  /\ e.after.separator_y = e.before.separator_y
                  /\ e.after.separator_found = e.before.separator_found

C17_Witness ==
    \E k \in PagesDone :
        LET e == ex.pages_log[k] IN
        /\ Cardinality(StatedInBand(e.page)) = 2
        /\ Len(SeparatorCandidates(e.page)) = 2
        /\ e.after.separator_y = <<SeparatorCandidates(e.page)[2].y>>
        /\ e.before.separator_y # e.after.separator_y

\* a page without its malformed primitives
WithoutMalformed(page) ==
    [page EXCEPT !.lines = SelectSeq(@, WellFormed), !.rects = SelectSeq(@, WellFormed)]

HasMalformed(page) ==
    \E q \in ToSet(page.lines) \cup ToSet(page.rects) : ~WellFormed(q)

\* C18: a primitive of the wrong arity or with a non-numeric coordinate adds
\* no candidate and raises nothing: the page is segmented as it would be
\* without that primitive, and so is the rest of the document.
C18_MalformedDiscarded ==
    /\ \A k \in PagesDone :
          LET e == ex.pages_log[k] IN
          /\ HorizontalLines(e.page) = HorizontalLines(WithoutMalformed(e.page))
          /\ e.after = ProcessPage(e.before, WithoutMalformed(e.page))
    /\ \A k \in 1..(IF DOMAIN ex = {} THEN 0 ELSE Len(ex.pages_log)) :
          ex.pages_log[k].after.raised => ex.pages_log[k].page.fails
    /\ Extracted =>
          ex.ret = extract_pdf_text_and_metadata(
                      [ex.pdf EXCEPT !.pages = [k \in 1..Len(@) |-> WithoutMalformed(@[k])]])

C18_Witness ==
    /\ Extracted
    /\ Len(ex.pages_log) = 2
    /\ HasMalformed(ex.pages_log[1].page)
    /\ ~WellFormed(ex.pages_log[1].page.lines[1])
    /\ ex.pages_log[1].after.separator_y = <<50>>
    /\ ex.pages_log[2].after.separator_y = <<60>>
    /\ ex.ret[1].separator_position = <<60>>

----------------------------------------------------------------------------
(* Routing in a scrape run *)

\* the documents requested so far in the run
Events == IF DOMAIN run = {} THEN <<>> ELSE run.events

\* the records of a list made for the article at a place (year, issue, number)
RecordsAt(list, at) == {k \in 1..Len(list) : list[k].at = at}

\* the metadata the extraction returns for the document of an event
EventMetadata(e) == Outcomes[e.download, e.at.year].metadata

\* C14: a document whose metadata has a flag gets one record in
\* flagged_articles, no result record and no log entry; a document extracted
\* without a flag is classified once and gets one result record, with the
\* label classify returns for it; no article is in both lists.
C14_FlaggedNeverClassified ==
    /\ \A k \in 1..Len(Events) :
          LET e == Events[k]
              metadata == EventMetadata(e)
          IN  /\ (metadata # <<>> /\ metadata[1].flags # <<>>) =>
                    /\ Cardinality(RecordsAt(run.flagged_articles, e.at)) = 1
                    /\ RecordsAt(run.results, e.at) = {}
                    /\ e.log_after = e.log_before
                    /\ e.outcome = "flagged"
              /\ (metadata # <<>> /\ metadata[1].flags = <<>>) =>
                    /\ Cardinality(RecordsAt(run.results, e.at)) = 1
                    /\ RecordsAt(run.flagged_articles, e.at) = {}
                    /\ e.log_after <= e.log_before + 1
                    /\ e.outcome = "classified"
                    /\ \A i \in RecordsAt(run.results, e.at) :
                          /\ run.results[i].title = TitleOf(metadata[1], e.download.page_title)
                          /\ run.results[i].classification_label \in LABELS \cup {"Misc"}
                          /\ run.results[i].classification_steps # <<>>
    /\ ScrapeStage # "idle" =>
          /\ \A i \in 1..Len(run.results), j \in 1..Len(run.flagged_articles) :
                run.results[i].at # run.flagged_articles[j].at
          /\ Len(run.results) + Len(run.flagged_articles) <= Len(Events)
          /\ Len(classification_log) <= Len(run.results)

C14_Witness ==
    /\ ScrapeStage = "articles"
    /\ run.issue = 2
    /\ Len(run.flagged_articles) = 2
    /\ Len(run.results) = 1
    /\ run.flagged_articles[1].flags = <<"likely_front_matter">>
    /\ run.flagged_articles[2].flags = <<"scanned_pdf_detected">>
    /\ run.results[1].pages > ShortPageLimit
    /\ Len(classification_log) = 1

\* C19: a document whose extraction fails at some point, at the opening of
\* the PDF or in the page loop of the separator detection, is not
\* classified, gets no result record and no log entry, and is counted as a
\* failure of the extraction.
C19_ExtractionFailureExcluded ==
    \A k \in 1..Len(Events) :
        LET e == Events[k] IN
        Raises[e.download] =>
            /\ e.outcome = "no_metadata"
            /\ RecordsAt(run.results, e.at) = {}
            /\ e.log_after = e.log_before

----------------------------------------------------------------------------
(* Step B: what counts as a section header *)

\* the characters that continue a word
WordChars == ToSet(UpperLetters) \cup ToSet(LowerLetters) \cup ToSet(DigitChars)

\* keyword stands in text as a whole word: no letter or digit right before
\* or right after it
OccursAsToken(text, keyword) ==
    \E i \in 1..(Len(text) - Len(keyword) + 1) :
        /\ SubSeq(text, i, i + Len(keyword) - 1) = keyword
        /\ i = 1 \/ text[i - 1] \notin WordChars
        /\ i + Len(keyword) > Len(text) \/ text[i + Len(keyword)] \notin WordChars

\* C20: Step B finds a category exactly when one of its header tokens stands
\* as a whole, case-sensitive word in the first 3000 characters of the main
\* text; NOTE inside FOOTNOTE, a lower-case spelling or an occurrence past
\* the prefix does not make the category found.
C20_ExactTokenInPrefix ==
    (pc = "C" /\ StepCalled("B")) =>
        \A category \in DOMAIN SECTION_KEYWORDS :
            category \in ToSet(FoundByStepB)
                <=> \E k \in 1..Len(SECTION_KEYWORDS[category]) :
                        OccursAsToken(SubSeq(paper_data.main_text, 1,
                                             Min(3000, Len(paper_data.main_text))),
                                      SECTION_KEYWORDS[category][k])

----------------------------------------------------------------------------
(* The scanned-document flag *)

\* C21: a document gets the flag scanned_pdf_detected exactly when it has
\* more than 3 pages and fewer than 100 words in all; a document without
\* any flag is classified.
C21_ScannedFlagExactly ==
    \A k \in 1..Len(Events) :
        LET e == Events[k]
            metadata == EventMetadata(e)
        IN  metadata # <<>> =>
                /\ "scanned_pdf_detected" \in ToSet(metadata[1].flags)
                      <=> (metadata[1].pages > 3 /\ metadata[1].words < 100)
                /\ metadata[1].pages = Len(e.download.pdf_content[1].pages)
                /\ metadata[1].flags = <<>> =>
                      /\ e.outcome = "classified"
                      /\ Cardinality(RecordsAt(run.results, e.at)) = 1

\* documents of four pages with 100 words (classified) and with 99 words
\* (flagged), and one of three pages with few words (classified)
C21_Witness ==
    /\ Len(Events) = 3
    /\ EventMetadata(Events[1]) # <<>>
    /\ EventMetadata(Events[1])[1].pages = 4
    /\ EventMetadata(Events[1])[1].words = 100
    /\ Events[1].outcome = "classified"
    /\ EventMetadata(Events[2]) # <<>>
    /\ EventMetadata(Events[2])[1].pages = 4
    /\ EventMetadata(Events[2])[1].words = 99
    /\ Events[2].outcome = "flagged"
    /\ EventMetadata(Events[3]) # <<>>
    /\ EventMetadata(Events[3])[1].pages = 3
    /\ EventMetadata(Events[3])[1].words < 100
    /\ Events[3].outcome = "classified"

----------------------------------------------------------------------------
(* Final labels *)

ProvisionalLabels == {"Unlabeled", "Article_OR_Essay", "Note_OR_Comment"}

\* C22: the label of a returned result is never Unlabeled, Article_OR_Essay
\* or Note_OR_Comment.
C22_NoProvisionalFinalLabel == Returned => FinalLabel \notin ProvisionalLabels

C22_Witness ==
    /\ Returned
    /\ StepCalled("D")
    /\ LabelAfter("C") = "Article_OR_Essay"
    /\ FinalLabel = "Essay"

\* C23: a document with no keyword category, a student author and at most
\* 20000 words is labelled Note_OR_Comment by Step C and ends as Comment or
\* Note, without ERROR, without Step E and without manual review.
C23_StudentNoteNeverError ==
    (/\ Returned
     /\ StepCalled("C")
     /\ FoundByStepB = <<>>
     /\ StatedStudentAuthor(paper_data.authors, publication_year)
     /\ paper_data.words <= 20000)
        => /\ LabelAfter("B") = "Unlabeled"
           /\ LabelAfter("C") = "Note_OR_Comment"
           /\ FinalLabel \in {"Comment", "Note"}
           /\ ~StepCalled("E")
           /\ ~RequiresManualReview(result)

C23_Witness ==
    /\ Returned
    /\ FoundByStepB = <<>>
    /\ LabelAfter("B") = "Unlabeled"
    /\ LabelAfter("C") = "Note_OR_Comment"
    /\ Contains(paper_data.authors, strClassOf)
    /\ paper_data.words = 20000
    /\ FinalLabel = "Comment"

----------------------------------------------------------------------------
(* The scan of an issue *)

Scanning == ScrapeStage = "articles"

\* an article the loop counts as a failure: no PDF, a metadata of None, or a
\* flagged document
Counted(tried) == tried.outcome \in {"no_pdf", "no_metadata", "flagged"}

\* the last three articles tried in the issue were counted as failures
ThreeCounted ==
    /\ Len(run.recent) = 3
    /\ \A k \in 1..3 : Counted(run.recent[k])

\* the loop as the code runs it: articles tried in the order 1, 2, ..., 20;
\* none tried once the last three were counted as failures; the count back
\* to 0 after a classified document; the issue left only after three
\* counted failures in a row or after article 20
ScanStopsOnCountedFailures ==
    /\ [](Scanning =>
            /\ run.tried = 1..(run.article_num - 1)
            /\ run.tried \subseteq 1..20
            /\ (run.recent # <<>> /\ run.recent[Len(run.recent)].outcome = "classified")
                  => run.consecutive_failures = 0
            /\ ThreeCounted <=> run.consecutive_failures >= 3)
    /\ [][Scanning =>
            /\ (Scanning' /\ run'.tried # {} /\ run'.tried # run.tried) =>
                  /\ ~ThreeCounted
                  /\ run'.tried = run.tried \cup {Cardinality(run.tried) + 1}
                  /\ run'.issue = run.issue /\ run'.year = run.year
            /\ (~Scanning' \/ run'.issue # run.issue \/ run'.year # run.year) =>
                  ThreeCounted \/ run.tried = 1..20]_vars

\* a failed attempt: a failed download, an extraction that failed at some
\* point, or a flagged document
Failed(tried) == Counted(tried) \/ tried.raises

\* the last three articles tried in the issue failed
ThreeFailed ==
    /\ Len(run.recent) = 3
    /\ \A k \in 1..3 : Failed(run.recent[k])

\* C24: in an issue the articles are tried in the order 1, 2, ... up to 20
\* at most; none is tried once the last three tried have failed, a failure
\* being a failed download, a failed extraction or a flagged document; a
\* classified document puts the count of consecutive failures back to 0;
\* and the issue is left only after three failures in a row or after
\* article 20.
C24_ScanStopsAfterThreeFailures ==
    /\ [](Scanning =>
            /\ run.tried = 1..(run.article_num - 1)
            /\ run.tried \subseteq 1..20
            /\ (run.recent # <<>> /\ ~Failed(run.recent[Len(run.recent)]))
                  => run.consecutive_failures = 0)
    /\ [][Scanning =>
            /\ (Scanning' /\ run'.tried # {} /\ run'.tried # run.tried) =>
                  /\ ~ThreeFailed
                  /\ run'.tried = run.tried \cup {Cardinality(run.tried) + 1}
                  /\ run'.issue = run.issue /\ run'.year = run.year
            /\ (~Scanning' \/ run'.issue # run.issue \/ run'.year # run.year) =>
                  ThreeFailed \/ run.tried = 1..20]_vars

====
